---- MODULE Spec2Model ----
(***************************************************************************)
(* Variance bar chart visual: the Visual class (constructor, update,       *)
(* clearChart, renderChart, renderVarianceBubble, getFormattingModel) and  *)
(* the formatting settings model with its defaults.                        *)
(*                                                                         *)
(* Numbers that may be fractional (the two bar-index settings, the scale   *)
(* domain, the variance percentage) are exact rationals [n, d] with d > 0  *)
(* in lowest terms.  Pixel geometry computed by the d3 scales (x, y,       *)
(* width, height, cx, cy, r), the y-axis ticks and the SI-formatted text   *)
(* of the bar labels are not part of the element records; everything else  *)
(* an element is given by the code (tag, class, fill, stroke, text, font   *)
(* size, bound datum, band slot, children) is.                             *)
(***************************************************************************)
EXTENDS Integers, Sequences, FiniteSets, TLC

VARIABLES
    chartGroup,          \* children of g.chartGroup, in document order
    svg,                 \* width/height of the svg and transform of g.chartGroup
    formattingSettings,  \* <<>> while the field is undefined, else <<model>>
    options,             \* <<>> or <<o>>: arguments of the current update call
    dataPoints,          \* dataPoints of the latest update (<<>> if none derived)
    selected,            \* [first, second]: selectedFirst/selectedSecond of renderChart
    yDomain,             \* [min, max]: yMin/yMax handed to yScale.domain()
    path,                \* the return the latest update took
    lastOp,              \* the latest operation the host invoked
    repeated,            \* latest update repeated the arguments of the call before it
    supplied             \* instance handed to the service when the latest operation
                         \* is getFormattingModel (<<>>: none, or undefined)

vars == <<chartGroup, svg, formattingSettings, options, dataPoints, selected,
          yDomain, path, lastOp, repeated, supplied>>

----------------------------------------------------------------------------
(* Bounds of the explored inputs *)

\* most rows of a result set
MaxRows == 3

\* largest bar-index setting tried (index settings run from -1 to MaxIndex)
MaxIndex == 3

----------------------------------------------------------------------------
(* Numbers *)

Abs(x) == IF x < 0 THEN -x ELSE x

Min(a, b) == IF a < b THEN a ELSE b

Max(a, b) == IF a > b THEN a ELSE b

RECURSIVE GCD(_, _)
GCD(a, b) == IF b = 0 THEN a ELSE GCD(b, a % b)

Rat(n, d) == LET g == GCD(Abs(n), d) IN [n |-> n \div g, d |-> d \div g]

Zero == Rat(0, 1)

RatMul(r, n, d) == Rat(r.n * n, r.d * d)

RatLess(a, b) == a.n * b.d < b.n * a.d

\* Math.round: the nearest integer, a tie going towards +Infinity
MathRound(r) == (2 * r.n + r.d) \div (2 * r.d)

----------------------------------------------------------------------------
(* Host values: powerbi.PrimitiveValue *)

Null == [kind |-> "null", num |-> 0, str |-> "", bool |-> FALSE]

Num(n) == [kind |-> "number", num |-> n, str |-> "", bool |-> FALSE]

Str(s) == [kind |-> "string", num |-> 0, str |-> s, bool |-> FALSE]

Bool(b) == [kind |-> "boolean", num |-> 0, str |-> "", bool |-> b]

\* JavaScript truthiness of a primitive value
Truthy(v) ==
    CASE v.kind = "null" -> FALSE
      [] v.kind = "number" -> v.num # 0
      [] v.kind = "string" -> v.str # ""
      [] v.kind = "boolean" -> v.bool

\* value.toString()
ToStr(v) ==
    CASE v.kind = "number" -> ToString(v.num)
      [] v.kind = "string" -> v.str
      [] v.kind = "boolean" -> IF v.bool THEN "true" ELSE "false"
      [] v.kind = "null" -> "null"

----------------------------------------------------------------------------
(* Settings model (settings.ts) *)

BarSettingsCard ==
    [barColor |-> "#4472C4", selectedBarColor |-> "#ED7D31",
     showDataLabels |-> TRUE, labelFontSize |-> 11]

VarianceBubbleCard ==
    [show |-> TRUE, bubbleColor |-> "#70AD47", negativeBubbleColor |-> "#FF0000",
     fontSize |-> 12, firstBarIndex |-> Rat(1, 1), secondBarIndex |-> Rat(2, 1)]

VisualFormattingSettingsModel ==
    [barSettingsCard |-> BarSettingsCard, varianceBubbleCard |-> VarianceBubbleCard]

\* a card's defaults overridden by the values persisted for it
Merge(card, persisted) ==
    [k \in DOMAIN card |-> IF k \in DOMAIN persisted THEN persisted[k] ELSE card[k]]

\* formattingSettingsService.populateFormattingSettingsModel(Model, dataView)
populateFormattingSettingsModel(dataView) ==
    [barSettingsCard |->
        Merge(VisualFormattingSettingsModel.barSettingsCard, dataView.objects.barSettings),
     varianceBubbleCard |->
        Merge(VisualFormattingSettingsModel.varianceBubbleCard,
              dataView.objects.varianceBubble)]

\* a || fallback on colour strings
OrElse(v, fallback) == IF v = "" THEN fallback ELSE v

----------------------------------------------------------------------------
(* Drawing surface *)

El(tag, class, fill, stroke, text, fontSize, datum, slot, children) ==
    [tag |-> tag, class |-> class, fill |-> fill, stroke |-> stroke, text |-> text,
     fontSize |-> fontSize, datum |-> datum, slot |-> slot, children |-> children]

margin == [top |-> 40, right |-> 30, bottom |-> 60, left |-> 60]

\* clearChart that removes nothing
clearChartKeeps == chartGroup

\* this.chartGroup.selectAll("*").remove() in clearChart
clearChart == <<>>

\* a redraw that appends to what is already drawn
removeNothing == chartGroup

\* this.chartGroup.selectAll("*").remove() in renderChart, before the redraw
removeAll == <<>>

----------------------------------------------------------------------------
(* update: data extraction *)

\* a && a[0]
First(s) == IF Len(s) > 0 THEN <<s[1]>> ELSE <<>>

BarDataPoint(cat, val, i) ==
    [category |-> IF Truthy(cat) THEN ToStr(cat) ELSE "",
     value |-> IF val.kind # "null" THEN val.num ELSE 0,
     index |-> i]

\* categories.values.map((cat, i) => ...)
DataPointsOf(categories, values) ==
    [k \in 1..Len(categories.values) |->
        BarDataPoint(categories.values[k], values.values[k], k - 1)]

----------------------------------------------------------------------------
(* renderChart *)

innerWidth(o) == o.viewport.width - margin.left - margin.right

innerHeight(o) == o.viewport.height - margin.top - margin.bottom

\* the guard with < in place of <=
NoDrawingAreaStrict(o) == innerWidth(o) < 0 \/ innerHeight(o) < 0

NoDrawingArea(o) == innerWidth(o) <= 0 \/ innerHeight(o) <= 0

rawIndex(setting) == MathRound(setting) - 1

\* the clamp without its lower limit
clampIndexAbove(n, raw) == Min(n - 1, raw)

clampIndex(n, raw) == Max(0, Min(n - 1, raw))

RECURSIVE Distinct(_, _)
Distinct(s, seen) ==
    IF s = <<>> THEN <<>>
    ELSE IF Head(s) \in seen THEN Distinct(Tail(s), seen)
    ELSE <<Head(s)>> \o Distinct(Tail(s), seen \cup {Head(s)})

\* xScale.domain(): the distinct categories in first-seen order
xDomain(dps) == Distinct([k \in 1..Len(dps) |-> dps[k].category], {})

\* xScale(category): the band slot of a category
xSlot(dps, category) ==
    LET dom == xDomain(dps) IN CHOOSE k \in 1..Len(dom) : dom[k] = category

Values(dps) == {dps[k].value : k \in 1..Len(dps)}

\* d3.min(dataPoints, d => d.value) ?? 0
minValue(dps) ==
    IF dps = <<>> THEN 0 ELSE CHOOSE v \in Values(dps) : \A w \in Values(dps) : v <= w

\* d3.max(dataPoints, d => d.value) ?? 1
maxValue(dps) ==
    IF dps = <<>> THEN 1 ELSE CHOOSE v \in Values(dps) : \A w \in Values(dps) : v >= w

\* the domain minimum without the 15% headroom
yMinTight(dps) == IF minValue(dps) < 0 THEN Rat(minValue(dps), 1) ELSE Zero

yMinOf(dps) == IF minValue(dps) < 0 THEN RatMul(Rat(minValue(dps), 1), 115, 100) ELSE Zero

yMaxOf(dps) == IF maxValue(dps) > 0 THEN RatMul(Rat(maxValue(dps), 1), 115, 100) ELSE Rat(1, 1)

IsSelected(d, selectedFirst, selectedSecond, show) ==
    (d.index = selectedFirst \/ d.index = selectedSecond) /\ show

\* the fill that does not look at the bubble toggle
barFillAnyToggle(d, selectedFirst, selectedSecond, show, selectedColor, defaultBarColor) ==
    IF d.index = selectedFirst \/ d.index = selectedSecond
    THEN selectedColor ELSE defaultBarColor

barFill(d, selectedFirst, selectedSecond, show, selectedColor, defaultBarColor) ==
    IF IsSelected(d, selectedFirst, selectedSecond, show)
    THEN selectedColor ELSE defaultBarColor

Axes(dps) ==
    << El("g", "x-axis", "", "", "", 11, -1, 0,
          [k \in 1..Len(xDomain(dps)) |->
              El("g", "tick", "", "", xDomain(dps)[k], 11, -1, k, <<>>)]),
       El("g", "y-axis", "", "", "", 0, -1, 0, <<>>) >>

Bars(dps, selectedFirst, selectedSecond, settings) ==
    LET barSettings == settings.barSettingsCard
        bubbleSettings == settings.varianceBubbleCard
        defaultBarColor == OrElse(barSettings.barColor, "#4472C4")
        selectedColor == OrElse(barSettings.selectedBarColor, "#ED7D31")
    IN  [k \in 1..Len(dps) |->
            El("rect", "bar",
               barFill(dps[k], selectedFirst, selectedSecond, bubbleSettings.show,
                       selectedColor, defaultBarColor),
               "", "", 0, dps[k].index, xSlot(dps, dps[k].category),
               << El("title", "", "", "",
                     dps[k].category \o ": " \o ToString(dps[k].value),
                     0, dps[k].index, 0, <<>>) >>)]

DataLabels(dps, settings) ==
    LET barSettings == settings.barSettingsCard IN
    IF barSettings.showDataLabels
    THEN [k \in 1..Len(dps) |->
            El("text", "bar-label", "#333", "", "", barSettings.labelFontSize,
               dps[k].index, xSlot(dps, dps[k].category), <<>>)]
    ELSE <<>>

----------------------------------------------------------------------------
(* renderVarianceBubble *)

\* the percentage over firstBar.value itself, not its absolute value
variancePctSigned(firstValue, secondValue) ==
    IF firstValue < 0
    THEN Rat((firstValue - secondValue) * 100, -firstValue)
    ELSE Rat((secondValue - firstValue) * 100, firstValue)

\* ((secondBar.value - firstBar.value) / Math.abs(firstBar.value)) * 100
variancePct(firstValue, secondValue) ==
    Rat((secondValue - firstValue) * 100, Abs(firstValue))

\* Number.prototype.toFixed(1): the sign, then the magnitude to the nearest tenth
toFixed1(r) ==
    LET tenths == (2 * 10 * Abs(r.n) + r.d) \div (2 * r.d)
    IN  (IF r.n < 0 THEN "-" ELSE "")
            \o ToString(tenths \div 10) \o "." \o ToString(tenths % 10)

varianceLabel(pct) == (IF ~RatLess(pct, Zero) THEN "+" ELSE "") \o toFixed1(pct) \o "%"

\* the bubble condition without the comparison of the two indices
ShouldRenderBubbleAlways(show, selectedFirst, selectedSecond) == show

ShouldRenderBubble(show, selectedFirst, selectedSecond) ==
    show /\ selectedFirst # selectedSecond

renderVarianceBubble(dps, firstIdx, secondIdx, bubbleSettings) ==
    IF \/ firstIdx + 1 \notin DOMAIN dps
       \/ secondIdx + 1 \notin DOMAIN dps
       \/ dps[firstIdx + 1].value = 0
    THEN <<>>
    ELSE
        LET firstBar == dps[firstIdx + 1]
            secondBar == dps[secondIdx + 1]
            pct == variancePct(firstBar.value, secondBar.value)
            isPositive == ~RatLess(pct, Zero)
            positiveColor == OrElse(bubbleSettings.bubbleColor, "#70AD47")
            negativeColor == OrElse(bubbleSettings.negativeBubbleColor, "#FF0000")
            bubbleColor == IF isPositive THEN positiveColor ELSE negativeColor
            fontSize == bubbleSettings.fontSize
        IN  << El("g", "variance-bubble-group", "", "", "", 0, -1, 0,
                  << El("line", "variance-connector", "", bubbleColor, "", 0,
                        firstBar.index, xSlot(dps, firstBar.category), <<>>),
                     El("line", "variance-connector", "", bubbleColor, "", 0,
                        secondBar.index, xSlot(dps, secondBar.category), <<>>),
                     El("circle", "variance-bubble", bubbleColor, "#fff", "", 0,
                        -1, 0, <<>>),
                     El("text", "variance-label", "#fff", "", varianceLabel(pct),
                        fontSize, -1, 0, <<>>) >>) >>

----------------------------------------------------------------------------
(* Operations *)

NoLocals ==
    /\ selected' = [first |-> 0, second |-> 0]
    /\ yDomain' = [min |-> Zero, max |-> Zero]

renderChart(o, dps) ==
    IF NoDrawingArea(o)
    THEN /\ chartGroup' = clearChart
         /\ path' = "noArea"
         /\ NoLocals
         /\ UNCHANGED svg
    ELSE
        LET settings == formattingSettings'[1]
            bubbleSettings == settings.varianceBubbleCard
            selectedFirst == clampIndex(Len(dps), rawIndex(bubbleSettings.firstBarIndex))
            selectedSecond == clampIndex(Len(dps), rawIndex(bubbleSettings.secondBarIndex))
        IN  /\ svg' = [width |-> o.viewport.width, height |-> o.viewport.height,
                       transform |-> <<margin.left, margin.top>>]
            /\ chartGroup' =
                  removeAll
                  \o Axes(dps)
                  \o Bars(dps, selectedFirst, selectedSecond, settings)
                  \o DataLabels(dps, settings)
                  \o (IF ShouldRenderBubble(bubbleSettings.show, selectedFirst,
                                            selectedSecond)
                      THEN renderVarianceBubble(dps, selectedFirst, selectedSecond,
                                                bubbleSettings)
                      ELSE <<>>)
            /\ selected' = [first |-> selectedFirst, second |-> selectedSecond]
            /\ yDomain' = [min |-> yMinOf(dps), max |-> yMaxOf(dps)]
            /\ path' = "rendered"

update(o) ==
    LET dataView == First(o.dataViews) IN
    /\ lastOp' = "update"
    /\ options' = <<o>>
    /\ repeated' = (lastOp = "update" /\ options = <<o>>)
    /\ supplied' = <<>>
    /\ IF dataView = <<>> \/ dataView[1].categorical = <<>>
       THEN /\ chartGroup' = clearChart
            /\ path' = "noDataView"
            /\ dataPoints' = <<>>
            /\ NoLocals
            /\ UNCHANGED <<formattingSettings, svg>>
       ELSE
           LET categorical == dataView[1].categorical[1]
               categories == First(categorical.categories)
               values == First(categorical.values)
           IN  /\ formattingSettings' = <<populateFormattingSettingsModel(dataView[1])>>
               /\ IF categories = <<>> \/ values = <<>>
                  THEN /\ chartGroup' = clearChart
                       /\ path' = "noColumns"
                       /\ dataPoints' = <<>>
                       /\ NoLocals
                       /\ UNCHANGED svg
                  ELSE /\ dataPoints' = DataPointsOf(categories[1], values[1])
                       /\ renderChart(o, dataPoints')

getFormattingModel ==
    /\ lastOp' = "getFormattingModel"
    /\ supplied' = formattingSettings
    /\ UNCHANGED <<chartGroup, svg, formattingSettings, options, dataPoints,
                   selected, yDomain, path, repeated>>

\* state after the constructor: an empty g.chartGroup inside an svg whose width,
\* height and transform are not yet set (0), formattingSettings not assigned
Constructed ==
    /\ chartGroup = <<>>
    /\ svg = [width |-> 0, height |-> 0, transform |-> <<0, 0>>]
    /\ formattingSettings = <<>>
    /\ dataPoints = <<>>
    /\ selected = [first |-> 0, second |-> 0]
    /\ yDomain = [min |-> Zero, max |-> Zero]
    /\ path = "none"
    /\ lastOp = "constructor"
    /\ repeated = FALSE
    /\ supplied = <<>>

----------------------------------------------------------------------------
(* Host inputs *)

SeqsUpTo(S, n) == UNION {[1..k -> S] : k \in 0..n}

NoOverrides == [k \in {} |-> 0]

NoObjects == [barSettings |-> NoOverrides, varianceBubble |-> NoOverrides]

\* a categorical result with one category column and one value column
Table(rows) ==
    [categories |-> <<[values |-> [k \in 1..Len(rows) |-> rows[k][1]]]>>,
     values |-> <<[values |-> [k \in 1..Len(rows) |-> rows[k][2]]]>>]

UpdateOptions(categorical, objects, viewport) ==
    [dataViews |-> <<[categorical |-> categorical, objects |-> objects]>>,
     viewport |-> viewport]

Roomy == [width |-> 300, height |-> 200]

Letter == <<"A", "B", "C", "D", "E", "F">>

\* rows whose categories are the letters in order and whose values are vals
Lettered(vals) == [k \in 1..Len(vals) |-> <<Str(Letter[k]), Num(vals[k])>>]

(* Inputs of the history specification: every shape of result set, a few
   persisted configurations, viewports with and without a drawing area *)
HistViewports ==
    {Roomy, [width |-> 90, height |-> 200], [width |-> 300, height |-> 100]}

HistObjects ==
    {NoObjects,
     [barSettings |-> [showDataLabels |-> FALSE],
      varianceBubble |-> [show |-> FALSE]],
     [barSettings |-> NoOverrides,
      varianceBubble |-> [firstBarIndex |-> Rat(2, 1), secondBarIndex |-> Rat(1, 1)]]}

HistCategoricals ==
    {<<>>,
     <<[categories |-> <<>>, values |-> <<[values |-> <<Num(100)>>]>>]>>,
     <<[categories |-> <<[values |-> <<Str("A")>>]>>, values |-> <<>>]>>}
    \cup {<<Table(rows)>> :
            rows \in SeqsUpTo({<<Str("A"), Num(100)>>, <<Str("B"), Num(150)>>}, MaxRows)}

HistInputs ==
    {[dataViews |-> <<>>, viewport |-> vp] : vp \in HistViewports}
    \cup {UpdateOptions(c, ob, vp) :
            c \in HistCategoricals, ob \in HistObjects, vp \in HistViewports}

(* Inputs of the extraction specification: category and measure values of
   every primitive kind *)
ExtractCategories == {Null, Str("A"), Str(""), Num(0), Num(7), Bool(FALSE), Bool(TRUE)}

ExtractMeasures == {Null, Num(0), Num(5)}

ExtractInputs ==
    {UpdateOptions(<<Table(rows)>>, NoObjects, Roomy) :
        rows \in SeqsUpTo(ExtractCategories \X ExtractMeasures, MaxRows)}

(* Inputs of the index specification: the first bar-index setting in quarter
   steps and the second in half steps from -1 to MaxIndex, the toggle, colours *)
IndexValues == {Rat(q, 4) : q \in -4..(4 * MaxIndex)}

SecondIndexValues == {Rat(q, 2) : q \in -2..(2 * MaxIndex)}

IndexBarSettings ==
    {NoOverrides, [barColor |-> "#ED7D31"], [barColor |-> "", selectedBarColor |-> "#000000"]}

IndexObjects ==
    {[barSettings |-> bs,
      varianceBubble |-> [show |-> sh, firstBarIndex |-> f, secondBarIndex |-> s]] :
        bs \in IndexBarSettings, sh \in BOOLEAN, f \in IndexValues,
        s \in SecondIndexValues}

IndexInputs ==
    {UpdateOptions(<<Table(Lettered(vals))>>, ob, Roomy) :
        vals \in SeqsUpTo({0, 100}, MaxRows), ob \in IndexObjects}

(* Inputs of the variance specification: measure values of both signs *)
VarianceValues == {-100, -50, 0, 3, 50, 100, 150}

VarianceObjects ==
    {NoObjects,
     [barSettings |-> NoOverrides,
      varianceBubble |-> [firstBarIndex |-> Rat(2, 1), secondBarIndex |-> Rat(1, 1),
                          bubbleColor |-> "#00FF00", negativeBubbleColor |-> ""]],
     [barSettings |-> NoOverrides,
      varianceBubble |-> [secondBarIndex |-> Rat(3, 1), bubbleColor |-> "",
                          negativeBubbleColor |-> "#880000"]]}

VarianceInputs ==
    {UpdateOptions(<<Table(Lettered(vals))>>, ob, Roomy) :
        vals \in SeqsUpTo(VarianceValues, MaxRows), ob \in VarianceObjects}

----------------------------------------------------------------------------
(* Specifications *)

\* the host calls update with any arguments, or asks for the formatting model
Init == Constructed /\ options = <<>>

Next ==
    \/ \E o \in HistInputs : update(o)
    \/ getFormattingModel

Spec == Init /\ [][Next]_vars

\* the host makes, and may repeat, one update call whose arguments Init draws
NextCall ==
    \/ update(options[1])
    \/ getFormattingModel

InitExtract == Constructed /\ options \in {<<o>> : o \in ExtractInputs}

SpecExtract == InitExtract /\ [][NextCall]_vars

InitIndex == Constructed /\ options \in {<<o>> : o \in IndexInputs}

SpecIndex == InitIndex /\ [][NextCall]_vars

InitVariance == Constructed /\ options \in {<<o>> : o \in VarianceInputs}

SpecVariance == InitVariance /\ [][NextCall]_vars

----------------------------------------------------------------------------
(* Properties *)

\* an update has returned: options[1] holds its arguments
Updated == path # "none"

Categorical(o) == o.dataViews[1].categorical[1]

\* the result set is absent, or lacks its categorical part or one of its columns
AbsentResult(o) ==
    \/ o.dataViews = <<>>
    \/ o.dataViews[1].categorical = <<>>
    \/ Categorical(o).categories = <<>>
    \/ Categorical(o).values = <<>>

CategoryColumn(o) == Categorical(o).categories[1].values

ValueColumn(o) == Categorical(o).values[1].values

Settings == formattingSettings[1]

BubbleClasses ==
    {"variance-bubble-group", "variance-connector", "variance-bubble", "variance-label"}

\* some bubble element is among the descendants of the chart group
HasBubble ==
    \E k \in DOMAIN chartGroup :
        \/ chartGroup[k].class \in BubbleClasses
        \/ \E j \in DOMAIN chartGroup[k].children :
              chartGroup[k].children[j].class \in BubbleClasses

BubbleGroup ==
    chartGroup[CHOOSE k \in DOMAIN chartGroup :
                  chartGroup[k].class = "variance-bubble-group"]

BarElements == {chartGroup[k] : k \in {j \in DOMAIN chartGroup : chartGroup[j].class = "bar"}}

(* C1: after an update whose result set is absent, has no categorical part,
   no category column or no value column, the chart group has no elements,
   whatever was drawn before. *)
C1_AbsentResultClears ==
    (Updated /\ AbsentResult(options[1])) => chartGroup = <<>>

\* C1 witness: a column is missing after an earlier update had sized and drawn the chart
C1_Witness ==
    /\ Updated /\ AbsentResult(options[1])
    /\ options[1].dataViews # <<>>
    /\ svg.width > 0
    /\ chartGroup = <<>>

(* C2: an update that repeats the arguments of the update just before it
   leaves the drawn elements (and the svg attributes) exactly as they were. *)
C2_Idempotent ==
    [][(lastOp = "update" /\ lastOp' = "update" /\ options' = options)
          => (chartGroup' = chartGroup /\ svg' = svg)]_vars

\* C2 witness: a repeated update that drew bars and a bubble
C2_Witness ==
    /\ repeated /\ lastOp = "update" /\ path = "rendered"
    /\ BarElements # {} /\ HasBubble

(* C3: with both columns present, update derives one point per row, in input
   order: index i, category the string form of the i-th category value (""
   if it is null), value the i-th measure (0 if it is null). *)
C3_PointPerRow ==
    (Updated /\ ~AbsentResult(options[1]) /\ path = "rendered") =>
        LET cats == CategoryColumn(options[1])
            vals == ValueColumn(options[1])
        IN  /\ Len(dataPoints) = Len(cats)
            /\ \A k \in 1..Len(cats) :
                  /\ dataPoints[k].index = k - 1
                  /\ dataPoints[k].category =
                        (IF cats[k].kind = "null" THEN "" ELSE ToStr(cats[k]))
                  /\ dataPoints[k].value =
                        (IF vals[k].kind = "null" THEN 0 ELSE vals[k].num)

(* C4 as claimed: for every index setting and every point count N, both
   effective comparison indices lie in 0..N-1. *)
C4_IndicesWithinRows ==
    path = "rendered" =>
        /\ selected.first \in 0..(Len(dataPoints) - 1)
        /\ selected.second \in 0..(Len(dataPoints) - 1)

(* C4 amended: for N >= 1 both effective comparison indices lie in 0..N-1;
   for N = 0 both are 0. *)
C4_IndicesClamped ==
    path = "rendered" =>
        IF Len(dataPoints) >= 1
        THEN /\ selected.first \in 0..(Len(dataPoints) - 1)
             /\ selected.second \in 0..(Len(dataPoints) - 1)
        ELSE selected.first = 0 /\ selected.second = 0

\* C4 witness: a negative fractional setting and one beyond the last row, both clamped
C4_Witness ==
    /\ path = "rendered" /\ Len(dataPoints) >= 2
    /\ Settings.varianceBubbleCard.firstBarIndex = Rat(-3, 4)
    /\ RatLess(Rat(Len(dataPoints), 1), Settings.varianceBubbleCard.secondBarIndex)
    /\ selected.first = 0
    /\ selected.second = Len(dataPoints) - 1

(* C5: bubble elements are on the surface only if the toggle is on, the two
   clamped indices differ, both bars exist and the first bar's value is not 0. *)
C5_BubbleOnlyIf ==
    HasBubble =>
        /\ path = "rendered"
        /\ Settings.varianceBubbleCard.show
        /\ selected.first # selected.second
        /\ selected.first + 1 \in DOMAIN dataPoints
        /\ selected.second + 1 \in DOMAIN dataPoints
        /\ dataPoints[selected.first + 1].value # 0

\* C5 witness: the bubble group with its two connectors, circle and label is drawn
C5_Witness ==
    /\ HasBubble
    /\ Len(BubbleGroup.children) = 4
    /\ selected.first > selected.second

(* C6: the label is (s - f) / |f| * 100 to one decimal place followed by
   "%", prefixed "+" exactly when that is >= 0; the bubble takes the positive
   colour when it is >= 0 and the negative colour otherwise. *)
C6_VarianceLabel ==
    HasBubble =>
        LET f == dataPoints[selected.first + 1].value
            s == dataPoints[selected.second + 1].value
            card == Settings.varianceBubbleCard
            label == BubbleGroup.children[4].text
            colour == BubbleGroup.children[3].fill
            \* |s - f| / |f| * 100 * 10 lies between q and q + 1
            q == (1000 * Abs(s - f)) \div Abs(f)
        IN  /\ \E t \in {q, q + 1} :
                  /\ 2 * Abs(1000 * Abs(s - f) - t * Abs(f)) <= Abs(f)
                  /\ label = (IF s >= f THEN "+" ELSE "-")
                               \o ToString(t \div 10) \o "." \o ToString(t % 10) \o "%"
            /\ colour = IF s >= f
                        THEN OrElse(card.bubbleColor, "#70AD47")
                        ELSE OrElse(card.negativeBubbleColor, "#FF0000")
            /\ BubbleGroup.children[1].stroke = colour
            /\ BubbleGroup.children[2].stroke = colour
            /\ (f = 100 /\ s = 150) => label = "+50.0%"
            /\ (f = 100 /\ s = 50) => label = "-50.0%"
            /\ (f = -100 /\ s = -50) => label = "+50.0%"

\* C6 witness: first -100, second -50 is drawn as +50.0%
C6_Witness ==
    /\ HasBubble
    /\ dataPoints[selected.first + 1].value = -100
    /\ dataPoints[selected.second + 1].value = -50
    /\ BubbleGroup.children[4].text = "+50.0%"

(* C7: a bar whose index is not one of the two clamped indices, and every
   bar when the toggle is off, has the default bar colour; a bar has the
   selected colour (where that differs from the default) only if its index
   is one of the two clamped indices and the toggle is on. *)
C7_BarFill ==
    path = "rendered" =>
        LET defaultBarColor == OrElse(Settings.barSettingsCard.barColor, "#4472C4")
            selectedColor == OrElse(Settings.barSettingsCard.selectedBarColor, "#ED7D31")
        IN  \A b \in BarElements :
              LET compared == /\ b.datum \in {selected.first, selected.second}
                              /\ Settings.varianceBubbleCard.show
              IN  /\ ~compared => b.fill = defaultBarColor
                  /\ (b.fill = selectedColor /\ selectedColor # defaultBarColor)
                        => compared

\* C7 witness: three bars drawn, one of them compared and coloured, toggle on
C7_Witness ==
    /\ path = "rendered" /\ Len(dataPoints) = 3
    /\ Settings.varianceBubbleCard.show
    /\ \E b \in BarElements : b.fill = "#ED7D31" /\ b.datum = selected.second
    /\ \E b \in BarElements : b.fill = "#4472C4"

(* C8: if the viewport width less 60 + 30, or its height less 40 + 60, is not
   positive, the chart group has no elements after the update, also for a
   valid result set and after an earlier update had drawn. *)
C8_NoAreaClears ==
    (Updated /\ (options[1].viewport.width - (60 + 30) <= 0
                 \/ options[1].viewport.height - (40 + 60) <= 0))
        => chartGroup = <<>>

\* C8 witness: a valid result set, no drawing area, after an earlier update had drawn
C8_Witness ==
    /\ Updated /\ ~AbsentResult(options[1])
    /\ Len(CategoryColumn(options[1])) >= 1
    /\ options[1].viewport.width - (60 + 30) <= 0
    /\ svg.width > 0
    /\ path = "noArea"

\* the domain bound is 1.15 times v
Headroom(bound, v) == bound.n * 100 = 115 * v * bound.d

(* C9 as claimed: the domain minimum is 0 when every value is >= 0, else
   1.15 times the least value; the domain maximum is 1 when every value is
   <= 0, else 1.15 times the greatest value. *)
C9_DomainAsClaimed ==
    path = "rendered" =>
        LET vs == Values(dataPoints) IN
        /\ IF \A v \in vs : v >= 0
           THEN yDomain.min = Rat(0, 1)
           ELSE \E v \in vs : (\A w \in vs : v <= w) /\ Headroom(yDomain.min, v)
        /\ IF \A v \in vs : v <= 0
           THEN yDomain.max = Rat(1, 1)
           ELSE \E v \in vs : (\A w \in vs : v >= w) /\ Headroom(yDomain.max, v)

(* C9 amended: the domain handed to the vertical scale, before nice() widens
   it, has minimum 0 when no value is negative, else 1.15 times the least
   value; its maximum is 1.15 times the greatest value when some value is
   positive, 1 when there are points and none is positive, and 1.15 when
   there are no points. *)
C9_DomainBeforeNice ==
    path = "rendered" =>
        LET vs == Values(dataPoints) IN
        /\ IF \A v \in vs : v >= 0
           THEN yDomain.min = Rat(0, 1)
           ELSE \E v \in vs : (\A w \in vs : v <= w) /\ Headroom(yDomain.min, v)
        /\ IF \E v \in vs : v > 0
           THEN \E v \in vs : (\A w \in vs : v >= w) /\ Headroom(yDomain.max, v)
           ELSE IF vs # {} THEN yDomain.max = Rat(1, 1)
           ELSE yDomain.max = Rat(115, 100)

\* C9 witness: values of both signs, both ends of the domain with headroom
C9_Witness ==
    /\ path = "rendered"
    /\ -100 \in Values(dataPoints) /\ 150 \in Values(dataPoints)
    /\ yDomain = [min |-> Rat(-115, 1), max |-> Rat(345, 2)]

\* the settings populated for the arguments of an update call
PopulatedFor(o) ==
    IF o.dataViews = <<>>
    THEN VisualFormattingSettingsModel
    ELSE populateFormattingSettingsModel(o.dataViews[1])

(* C10: getFormattingModel is answered from an instance that is never
   missing and is the settings model populated for the most recent update
   call, early returns included. *)
C10_SuppliesCurrentSettings ==
    lastOp = "getFormattingModel" =>
        /\ supplied # <<>>
        /\ Updated => supplied[1] = PopulatedFor(options[1])

====
